---- MODULE Spec2Model ----
(***************************************************************************)
(* A model of lib/k8s.py of eks-rolling-update: the cluster state reader   *)
(* (get_k8s_nodes), the node resolver (get_node_by_instance_id), the       *)
(* autoscaler controller (modify_k8s_autoscaler), the node evictor         *)
(* (drain_node, delete_node) and the two health pollers (k8s_nodes_ready,  *)
(* k8s_nodes_count), together with the replacement sequence that composes  *)
(* them.  Every function is either called directly with arbitrary          *)
(* arguments (the Call_* actions) or called by the replacement sequence    *)
(* (the Orch_* actions).                                                   *)
(*                                                                         *)
(* Python values: a str that the code inspects character by character is   *)
(* a sequence of one-character strings; None is the string "None"; a local *)
(* variable is a sequence of length at most one, <<>> while it is unbound  *)
(* and <<v>> once it holds v.                                              *)
(***************************************************************************)
EXTENDS Integers, Sequences, FiniteSets, TLC

VARIABLES
    app_config,   \* the process-wide configuration the functions read
    step,         \* the state of the replacement sequence
    target,       \* what the replacement sequence remembers between steps
    frame,        \* the function last called: its name, position and locals
    ret,          \* how that call ended: [kind, val]
    cluster,      \* the real cluster: autoscaler replicas, node objects, pods
    patchCalls,   \* the patch_namespaced_deployment calls issued, in order
    deleteCalls,  \* the CoreV1Api.delete_node calls issued, in order
    drainCalls,   \* the kubectl drain processes run, in order
    poll          \* per poller invocation: fetches, sleeps, what was observed

vars == <<app_config, step, target, frame, ret, cluster,
          patchCalls, deleteCalls, drainCalls, poll>>

----------------------------------------------------------------------------
(* Bounds of the model *)

\* a snapshot holds at most MaxNodes nodes
MaxNodes == 2
\* GLOBAL_MAX_RETRY ranges over 0..MaxRetry
MaxRetry == 3
\* the configured resumed replica count ranges over 1..MaxReplicas
MaxReplicas == 2

----------------------------------------------------------------------------
(* Python values and call outcomes *)

None == "None"
Unbound == <<>>
Bound(v) == <<v>>

NoRet == [kind |-> "none", val |-> None]
Return(v) == [kind |-> "return", val |-> v]
Raise(e) == [kind |-> "raise", val |-> e]
\* sys.exit(code): SystemExit ends the process
Exit(code) == [kind |-> "exit", val |-> code]

----------------------------------------------------------------------------
(* The cluster's node objects *)

Cond(t, s) == [type |-> t, status |-> s]

\* The node objects list_node may return.  provider_id is the provider URI
\* ("/i1" stands for aws:///zone/i-1): instance id i1 is contained in the
\* provider ids of node-a and node-c, i2 in those of node-b and node-d.
NodeUniverse ==
    { [name |-> "node-a", provider_id |-> <<"/", "i", "1">>,
       conditions |-> <<Cond("Ready", "True")>>],
      [name |-> "node-b", provider_id |-> <<"/", "i", "2">>,
       conditions |-> <<Cond("Ready", "False")>>],
      [name |-> "node-c", provider_id |-> <<"/", "i", "1", "2">>,
       conditions |-> <<Cond("MemoryPressure", "False"), Cond("Ready", "Unknown")>>],
      [name |-> "node-d", provider_id |-> <<"/", "i", "2", "1">>,
       conditions |-> <<Cond("Ready", "False"), Cond("Ready", "True")>>],
      [name |-> "node-e", provider_id |-> <<"/", "i", "3">>,
       conditions |-> <<Cond("Ready", "True"), Cond("Ready", "False")>>] }

NodeNames == {n.name : n \in NodeUniverse}

\* node names are unique in a cluster: a snapshot lists distinct nodes
IsSnapshot(s) == \A i, j \in 1..Len(s) : i # j => s[i] # s[j]

Snapshots ==
    {s \in UNION {[1..k -> NodeUniverse] : k \in 0..MaxNodes} : IsSnapshot(s)}

InstanceIds == { <<"i", "1">>, <<"i", "2">>, <<"i", "3">>, <<"i", "9">> }

AutoscalerActions == {"pause", "resume", "Pause", "stop"}

\* get_k8s_nodes(): list_node() answers with a snapshot or fails
get_k8s_nodes ==
    {Return(s) : s \in Snapshots} \cup {Raise("ApiException")}

----------------------------------------------------------------------------
(* get_node_by_instance_id *)

\* Python's `needle in hay` on str: hay holds needle as a contiguous run
StrIn(needle, hay) ==
    \E k \in 0..(Len(hay) - Len(needle)) :
        SubSeq(hay, k + 1, k + Len(needle)) = needle

\* NextNodeName with the first match kept instead of overwritten
NextNodeName_FirstWins(node_name, k8s_node, instance_id) ==
    IF StrIn(instance_id, k8s_node.provider_id) /\ node_name = ""
    THEN k8s_node.name
    ELSE node_name

\* one pass of the for loop's body, giving node_name after it
NextNodeName(node_name, k8s_node, instance_id) ==
    IF StrIn(instance_id, k8s_node.provider_id)
    THEN k8s_node.name
    ELSE node_name

\* the for loop over k8s_nodes from index i on
RECURSIVE ScanNodes(_, _, _, _)
ScanNodes(k8s_nodes, instance_id, i, node_name) ==
    IF i > Len(k8s_nodes)
    THEN node_name
    ELSE ScanNodes(k8s_nodes, instance_id, i + 1,
                   NextNodeName(node_name, k8s_nodes[i], instance_id))

\* ResolveOutcome without the `if not node_name` check
ResolveOutcome_NeverRaises(node_name) == Return(node_name)

\* what the function does with node_name once the loop has ended
ResolveOutcome(node_name) ==
    IF node_name = ""
    THEN Raise("Could not find a k8s node name for that instance id. Exiting")
    ELSE Return(node_name)

get_node_by_instance_id(k8s_nodes, instance_id) ==
    ResolveOutcome(ScanNodes(k8s_nodes, instance_id, 1, ""))

\* a call of get_node_by_instance_id: the frame it leaves and its outcome
Resolve(k8s_nodes, instance_id) ==
    /\ frame' = [fn |-> "get_node_by_instance_id", pc |-> "done",
                 k8s_nodes |-> k8s_nodes, instance_id |-> instance_id]
    /\ ret' = get_node_by_instance_id(k8s_nodes, instance_id)

----------------------------------------------------------------------------
(* modify_k8s_autoscaler *)

PausedReplicas == 0
ResumedReplicas == 2

\* AutoscalerBody with the two replica counts exchanged
AutoscalerBody_Exchanged(action) ==
    IF action = "pause" THEN Bound(ResumedReplicas)
    ELSE IF action = "resume" THEN Bound(PausedReplicas)
    ELSE Unbound

\* AutoscalerBody with the elif taken for every action that is not pause
AutoscalerBody_ElseResumes(action) ==
    IF action = "pause" THEN Bound(PausedReplicas)
    ELSE Bound(ResumedReplicas)

\* the if / elif / else on action: the patch body's replica count, or
\* <<>> when the function exits
AutoscalerBody(action) ==
    IF action = "pause" THEN Bound(PausedReplicas)
    ELSE IF action = "resume" THEN Bound(ResumedReplicas)
    ELSE Unbound

\* OnPatchApiException without the sys.exit(1): log and fall off the end
OnPatchApiException_Swallowed == Return(None)

\* the except ApiException branch
OnPatchApiException == Exit(1)

\* patch_namespaced_deployment answers: accepted, or ApiException
PatchAnswers == {"ok", "ApiException"}

modify_k8s_autoscaler(action) ==
    LET body == AutoscalerBody(action) IN
    /\ frame' = [fn |-> "modify_k8s_autoscaler", pc |-> "done",
                 action |-> action, body |-> body]
    /\ IF body = Unbound
       THEN /\ ret' = Exit(1)
            /\ UNCHANGED <<patchCalls, cluster>>
       ELSE \E answer \in PatchAnswers :
              /\ patchCalls' = Append(patchCalls,
                                 [replicas |-> body[1], ok |-> answer = "ok"])
              /\ IF answer = "ok"
                 THEN /\ cluster' = [cluster EXCEPT !.replicas = body[1]]
                      /\ ret' = Return(None)
                 ELSE /\ UNCHANGED cluster
                      /\ ret' = OnPatchApiException

----------------------------------------------------------------------------
(* delete_node and drain_node *)

\* the except ApiException branch of delete_node: log, fall off the end
OnDeleteApiException == Return(None)

DeleteAnswers == {"ok", "ApiException"}

\* the if / else on DRY_RUN: the arguments of k8s_api.delete_node
DeleteRequest(node_name) ==
    IF ~app_config.DRY_RUN
    THEN [node_name |-> node_name, dry_run |-> None]
    ELSE [node_name |-> node_name, dry_run |-> "true"]

\* delete_node with the rejected call issued a second time
delete_node_RetriesOnce(node_name) ==
    /\ frame' = [fn |-> "delete_node", pc |-> "done", node_name |-> node_name]
    /\ \E answer \in DeleteAnswers, again \in DeleteAnswers :
         LET request == DeleteRequest(node_name)
             call(a) == [node_name |-> request.node_name,
                         dry_run |-> request.dry_run, ok |-> a = "ok"]
             applied == (answer = "ok" \/ again = "ok") /\ request.dry_run = None
         IN
         /\ deleteCalls' = IF answer = "ok"
                           THEN Append(deleteCalls, call(answer))
                           ELSE Append(Append(deleteCalls, call(answer)), call(again))
         /\ cluster' = IF applied
                       THEN [cluster EXCEPT !.deleted = @ \cup {request.node_name}]
                       ELSE cluster
         /\ ret' = Return(None)

\* the API applies a delete it accepted unless it carries the dry-run flag
delete_node(node_name) ==
    /\ frame' = [fn |-> "delete_node", pc |-> "done", node_name |-> node_name]
    /\ \E answer \in DeleteAnswers :
         LET request == DeleteRequest(node_name) IN
         /\ deleteCalls' = Append(deleteCalls,
                             [node_name |-> request.node_name,
                              dry_run |-> request.dry_run,
                              ok |-> answer = "ok"])
         /\ cluster' = IF answer = "ok" /\ request.dry_run = None
                       THEN [cluster EXCEPT !.deleted = @ \cup {request.node_name}]
                       ELSE cluster
         /\ ret' = IF answer = "ok" THEN Return(None) ELSE OnDeleteApiException

\* the exit statuses of kubectl drain
DrainStatuses == {0, 1}

\* DrainOutcome without the returncode check
DrainOutcome_IgnoresStatus(returncode) == Return(None)

\* the check of result.returncode
DrainOutcome(returncode) ==
    IF returncode # 0
    THEN Raise("Node not drained properly. Exiting")
    ELSE Return(None)

\* DrainArgv with the DRY_RUN test lost: the command of the else branch
DrainArgv_NeverDryRun(node_name) ==
    <<"kubectl", "drain", node_name,
      "--ignore-daemonsets", "--delete-local-data">>

\* the if / else on DRY_RUN: the command line handed to subprocess.run
DrainArgv(node_name) ==
    IF app_config.DRY_RUN
    THEN <<"kubectl", "drain", node_name,
           "--ignore-daemonsets", "--delete-local-data", "--dry-run">>
    ELSE <<"kubectl", "drain", node_name,
           "--ignore-daemonsets", "--delete-local-data">>

HasFlag(argv, flag) == \E k \in 1..Len(argv) : argv[k] = flag

\* kubectl drain evicts the pods of argv[3] when it succeeds without --dry-run
drain_node(node_name) ==
    /\ frame' = [fn |-> "drain_node", pc |-> "done", node_name |-> node_name]
    /\ \E returncode \in DrainStatuses :
         LET argv == DrainArgv(node_name) IN
         /\ drainCalls' = Append(drainCalls,
                            [argv |-> argv, returncode |-> returncode])
         /\ cluster' = IF returncode = 0 /\ ~HasFlag(argv, "--dry-run")
                       THEN [cluster EXCEPT !.evicted = @ \cup {argv[3]}]
                       ELSE cluster
         /\ ret' = DrainOutcome(returncode)

----------------------------------------------------------------------------
(* What a poller invocation has observed *)

\* a snapshot in which no node carries a condition record Ready / False
AllReady(s) ==
    \A i \in 1..Len(s) : \A j \in 1..Len(s[i].conditions) :
        ~(s[i].conditions[j].type = "Ready" /\ s[i].conditions[j].status = "False")

\* fetches: calls of get_k8s_nodes made; sleeps: calls of time.sleep made;
\* verdicts: evaluations of a fetched snapshot made;
\* failed: a get_k8s_nodes call raised; converged: a fetched snapshot met
\* the poller's criterion; late: fetches made after such a snapshot
NewPoll ==
    [fetches |-> 0, sleeps |-> 0, failed |-> FALSE, converged |-> FALSE, late |-> 0,
     verdicts |-> 0]

Fetched(met) ==
    [poll EXCEPT !.fetches = @ + 1,
                 !.verdicts = @ + 1,
                 !.late = IF poll.converged THEN @ + 1 ELSE @,
                 !.converged = @ \/ met]

FetchFailed == [poll EXCEPT !.fetches = @ + 1, !.failed = TRUE]

----------------------------------------------------------------------------
(* k8s_nodes_ready *)

InitialRetryCount == 1

\* FetchErrorPc with the exception caught and the attempt retried
FetchErrorPc_Retried == "sleep"

\* where a poller goes when get_k8s_nodes raises: no try statement
\* surrounds the call, the function ends there
FetchErrorPc == "done"

\* the if / elif on one condition record, giving healthy_nodes after it
ConditionVerdict(healthy_nodes, condition) ==
    IF condition.type = "Ready" /\ condition.status = "False"
    THEN FALSE
    ELSE healthy_nodes

\* for condition in conditions, from index j on
RECURSIVE ScanConditions(_, _, _)
ScanConditions(conditions, j, healthy_nodes) ==
    IF j > Len(conditions)
    THEN healthy_nodes
    ELSE ScanConditions(conditions, j + 1,
                        ConditionVerdict(healthy_nodes, conditions[j]))

\* for node in nodes, from index i on
RECURSIVE ScanHealth(_, _, _)
ScanHealth(nodes, i, healthy_nodes) ==
    IF i > Len(nodes)
    THEN healthy_nodes
    ELSE ScanHealth(nodes, i + 1,
                    ScanConditions(nodes[i].conditions, 1, healthy_nodes))

\* ResetVerdict with the assignment made on the first iteration only
ResetVerdict_KeepsEarlier(local) ==
    IF local = Unbound THEN Bound(TRUE) ELSE local

\* `healthy_nodes = True` / `nodes_online = True` at the top of every
\* iteration
ResetVerdict(local) == Bound(TRUE)

\* LoopCondition with <= in place of <
LoopCondition_Inclusive(retry_count, max_retry) == retry_count <= max_retry

\* the while condition of both pollers
LoopCondition(retry_count, max_retry) == retry_count < max_retry

\* `return healthy_nodes` / `return nodes_online`: reading a local that no
\* iteration has assigned raises UnboundLocalError
ReturnLocal(local) ==
    IF local = Unbound THEN Raise("UnboundLocalError") ELSE Return(local[1])

\* entering k8s_nodes_ready(max_retry)
Enter_k8s_nodes_ready(max_retry) ==
    /\ frame' = [fn |-> "k8s_nodes_ready", pc |-> "while",
                 max_retry |-> max_retry, retry_count |-> InitialRetryCount,
                 healthy_nodes |-> Unbound, nodes |-> Unbound]
    /\ ret' = NoRet
    /\ poll' = NewPoll

k8s_nodes_ready_while ==
    /\ frame.fn = "k8s_nodes_ready" /\ frame.pc = "while"
    /\ frame' = IF LoopCondition(frame.retry_count, frame.max_retry)
                THEN [frame EXCEPT !.healthy_nodes = ResetVerdict(@),
                                   !.retry_count = @ + 1,
                                   !.pc = "fetch"]
                ELSE [frame EXCEPT !.pc = "return"]
    /\ UNCHANGED <<app_config, step, target, ret, cluster,
                   patchCalls, deleteCalls, drainCalls, poll>>

k8s_nodes_ready_fetch ==
    /\ frame.fn = "k8s_nodes_ready" /\ frame.pc = "fetch"
    /\ \E r \in get_k8s_nodes :
         IF r.kind = "raise"
         THEN /\ frame' = [frame EXCEPT !.pc = FetchErrorPc]
              /\ ret' = r
              /\ poll' = FetchFailed
         ELSE LET healthy == ScanHealth(r.val, 1, frame.healthy_nodes[1]) IN
              /\ frame' = [frame EXCEPT !.nodes = Bound(r.val),
                                        !.healthy_nodes = Bound(healthy),
                                        !.pc = IF healthy THEN "return" ELSE "sleep"]
              /\ ret' = ret
              /\ poll' = Fetched(AllReady(r.val))
    /\ UNCHANGED <<app_config, step, target, cluster,
                   patchCalls, deleteCalls, drainCalls>>

k8s_nodes_ready_sleep ==
    /\ frame.fn = "k8s_nodes_ready" /\ frame.pc = "sleep"
    /\ frame' = [frame EXCEPT !.pc = "while"]
    /\ poll' = [poll EXCEPT !.sleeps = @ + 1]
    /\ UNCHANGED <<app_config, step, target, ret, cluster,
                   patchCalls, deleteCalls, drainCalls>>

k8s_nodes_ready_return ==
    /\ frame.fn = "k8s_nodes_ready" /\ frame.pc = "return"
    /\ frame' = [frame EXCEPT !.pc = "done"]
    /\ ret' = ReturnLocal(frame.healthy_nodes)
    /\ UNCHANGED <<app_config, step, target, cluster,
                   patchCalls, deleteCalls, drainCalls, poll>>

----------------------------------------------------------------------------
(* k8s_nodes_count *)

\* nodes_online after the if / else on len(nodes)
CountVerdict(nodes_online, nodes, desired_node_count) ==
    IF Len(nodes) # desired_node_count THEN FALSE ELSE nodes_online

\* entering k8s_nodes_count(desired_node_count, max_retry)
Enter_k8s_nodes_count(desired_node_count, max_retry) ==
    /\ frame' = [fn |-> "k8s_nodes_count", pc |-> "while",
                 desired_node_count |-> desired_node_count,
                 max_retry |-> max_retry, retry_count |-> InitialRetryCount,
                 nodes_online |-> Unbound, nodes |-> Unbound]
    /\ ret' = NoRet
    /\ poll' = NewPoll

k8s_nodes_count_while ==
    /\ frame.fn = "k8s_nodes_count" /\ frame.pc = "while"
    /\ frame' = IF LoopCondition(frame.retry_count, frame.max_retry)
                THEN [frame EXCEPT !.nodes_online = ResetVerdict(@),
                                   !.retry_count = @ + 1,
                                   !.pc = "fetch"]
                ELSE [frame EXCEPT !.pc = "return"]
    /\ UNCHANGED <<app_config, step, target, ret, cluster,
                   patchCalls, deleteCalls, drainCalls, poll>>

k8s_nodes_count_fetch ==
    /\ frame.fn = "k8s_nodes_count" /\ frame.pc = "fetch"
    /\ \E r \in get_k8s_nodes :
         IF r.kind = "raise"
         THEN /\ frame' = [frame EXCEPT !.pc = FetchErrorPc]
              /\ ret' = r
              /\ poll' = FetchFailed
         ELSE LET online == CountVerdict(frame.nodes_online[1], r.val,
                                         frame.desired_node_count) IN
              /\ frame' = [frame EXCEPT !.nodes = Bound(r.val),
                                        !.nodes_online = Bound(online),
                                        !.pc = IF Len(r.val) # frame.desired_node_count
                                               THEN "sleep" ELSE "return"]
              /\ ret' = ret
              /\ poll' = Fetched(Len(r.val) = frame.desired_node_count)
    /\ UNCHANGED <<app_config, step, target, cluster,
                   patchCalls, deleteCalls, drainCalls>>

k8s_nodes_count_sleep ==
    /\ frame.fn = "k8s_nodes_count" /\ frame.pc = "sleep"
    /\ frame' = [frame EXCEPT !.pc = "while"]
    /\ poll' = [poll EXCEPT !.sleeps = @ + 1]
    /\ UNCHANGED <<app_config, step, target, ret, cluster,
                   patchCalls, deleteCalls, drainCalls>>

k8s_nodes_count_return ==
    /\ frame.fn = "k8s_nodes_count" /\ frame.pc = "return"
    /\ frame' = [frame EXCEPT !.pc = "done"]
    /\ ret' = ReturnLocal(frame.nodes_online)
    /\ UNCHANGED <<app_config, step, target, cluster,
                   patchCalls, deleteCalls, drainCalls, poll>>

----------------------------------------------------------------------------
(* Direct calls: each function called once, with arbitrary arguments *)

DesiredCounts == 0..(MaxNodes + 1)

Call_get_node_by_instance_id ==
    /\ step = "Idle"
    /\ step' = "Called"
    /\ \E k8s_nodes \in Snapshots, instance_id \in InstanceIds :
         Resolve(k8s_nodes, instance_id)
    /\ UNCHANGED <<app_config, target, cluster,
                   patchCalls, deleteCalls, drainCalls, poll>>

Call_modify_k8s_autoscaler ==
    /\ step = "Idle"
    /\ step' = "Called"
    /\ \E action \in AutoscalerActions : modify_k8s_autoscaler(action)
    /\ UNCHANGED <<app_config, target, deleteCalls, drainCalls, poll>>

Call_drain_node ==
    /\ step = "Idle"
    /\ step' = "Called"
    /\ \E node_name \in NodeNames : drain_node(node_name)
    /\ UNCHANGED <<app_config, target, patchCalls, deleteCalls, poll>>

Call_delete_node ==
    /\ step = "Idle"
    /\ step' = "Called"
    /\ \E node_name \in NodeNames : delete_node(node_name)
    /\ UNCHANGED <<app_config, target, patchCalls, drainCalls, poll>>

\* max_retry takes its default, app_config['GLOBAL_MAX_RETRY']
Call_k8s_nodes_ready ==
    /\ step = "Idle"
    /\ step' = "Called"
    /\ Enter_k8s_nodes_ready(app_config.GLOBAL_MAX_RETRY)
    /\ UNCHANGED <<app_config, target, cluster,
                   patchCalls, deleteCalls, drainCalls>>

Call_k8s_nodes_count ==
    /\ step = "Idle"
    /\ step' = "Called"
    /\ \E desired_node_count \in DesiredCounts :
         Enter_k8s_nodes_count(desired_node_count, app_config.GLOBAL_MAX_RETRY)
    /\ UNCHANGED <<app_config, target, cluster,
                   patchCalls, deleteCalls, drainCalls>>

----------------------------------------------------------------------------
(* The replacement sequence:                                               *)
(* Idle -> Resolving -> Paused -> Draining -> Deleting -> AwaitingCount -> *)
(* AwaitingHealth -> Resumed -> Done, and Aborted.  step names the         *)
(* operation that has been started; ret holds how it ended.                *)

\* the operation of the current step has returned normally
Returned == frame.pc = "done" /\ ret.kind = "return"

\* the operation of the current step raised, or ended the process
Failed == frame.pc = "done" /\ ret.kind \in {"raise", "exit"}

\* list the nodes, then resolve the instance id
Orch_Resolve ==
    /\ step = "Idle"
    /\ step' = "Resolving"
    /\ \E r \in get_k8s_nodes, instance_id \in InstanceIds :
         IF r.kind = "raise"
         THEN /\ frame' = [fn |-> "get_k8s_nodes", pc |-> "done"]
              /\ ret' = r
         ELSE Resolve(r.val, instance_id)
    /\ UNCHANGED <<app_config, target, cluster,
                   patchCalls, deleteCalls, drainCalls, poll>>

Orch_Pause ==
    /\ step = "Resolving" /\ Returned
    /\ step' = "Paused"
    /\ target' = [node_name |-> ret.val,
                  desired_node_count |-> Len(frame.k8s_nodes)]
    /\ modify_k8s_autoscaler("pause")
    /\ UNCHANGED <<app_config, deleteCalls, drainCalls, poll>>

Orch_Drain ==
    /\ step = "Paused" /\ Returned
    /\ step' = "Draining"
    /\ drain_node(target.node_name)
    /\ UNCHANGED <<app_config, target, patchCalls, deleteCalls, poll>>

Orch_Delete ==
    /\ step = "Draining" /\ Returned
    /\ step' = "Deleting"
    /\ delete_node(target.node_name)
    /\ UNCHANGED <<app_config, target, patchCalls, drainCalls, poll>>

Orch_AwaitCount ==
    /\ step = "Deleting" /\ Returned
    /\ step' = "AwaitingCount"
    /\ Enter_k8s_nodes_count(target.desired_node_count, app_config.GLOBAL_MAX_RETRY)
    /\ UNCHANGED <<app_config, target, cluster,
                   patchCalls, deleteCalls, drainCalls>>

\* a poller's false is a result the sequence may proceed past
Orch_AwaitHealth ==
    /\ step = "AwaitingCount" /\ Returned
    /\ step' = "AwaitingHealth"
    /\ Enter_k8s_nodes_ready(app_config.GLOBAL_MAX_RETRY)
    /\ UNCHANGED <<app_config, target, cluster,
                   patchCalls, deleteCalls, drainCalls>>

Orch_Resume ==
    /\ step = "AwaitingHealth" /\ Returned
    /\ step' = "Resumed"
    /\ modify_k8s_autoscaler("resume")
    /\ UNCHANGED <<app_config, target, deleteCalls, drainCalls, poll>>

Orch_Done ==
    /\ step = "Resumed" /\ Returned
    /\ step' = "Done"
    /\ UNCHANGED <<app_config, target, frame, ret, cluster,
                   patchCalls, deleteCalls, drainCalls, poll>>

\* a failed operation ends the sequence
Orch_Abort ==
    /\ step \in {"Resolving", "Paused", "Draining", "Deleting",
                 "AwaitingCount", "AwaitingHealth", "Resumed"}
    /\ Failed
    /\ step' = "Aborted"
    /\ UNCHANGED <<app_config, target, frame, ret, cluster,
                   patchCalls, deleteCalls, drainCalls, poll>>

\* a poller's false is a result the sequence may stop at
Orch_GiveUp ==
    /\ step \in {"AwaitingCount", "AwaitingHealth"}
    /\ Returned /\ ret.val = FALSE
    /\ step' = "Aborted"
    /\ UNCHANGED <<app_config, target, frame, ret, cluster,
                   patchCalls, deleteCalls, drainCalls, poll>>

----------------------------------------------------------------------------
(* The specification *)

Init ==
    /\ app_config \in [DRY_RUN : BOOLEAN,
                       GLOBAL_MAX_RETRY : 0..MaxRetry,
                       RESUMED_REPLICAS : 1..MaxReplicas]
    /\ step = "Idle"
    /\ target = [node_name |-> None, desired_node_count |-> 0]
    /\ frame = [fn |-> "none", pc |-> "idle"]
    /\ ret = NoRet
    /\ cluster = [replicas |-> app_config.RESUMED_REPLICAS,
                  deleted |-> {}, evicted |-> {}]
    /\ patchCalls = <<>>
    /\ deleteCalls = <<>>
    /\ drainCalls = <<>>
    /\ poll = NewPoll

Next ==
    \/ Call_get_node_by_instance_id
    \/ Call_modify_k8s_autoscaler
    \/ Call_drain_node
    \/ Call_delete_node
    \/ Call_k8s_nodes_ready
    \/ Call_k8s_nodes_count
    \/ k8s_nodes_ready_while
    \/ k8s_nodes_ready_fetch
    \/ k8s_nodes_ready_sleep
    \/ k8s_nodes_ready_return
    \/ k8s_nodes_count_while
    \/ k8s_nodes_count_fetch
    \/ k8s_nodes_count_sleep
    \/ k8s_nodes_count_return
    \/ Orch_Resolve
    \/ Orch_Pause
    \/ Orch_Drain
    \/ Orch_Delete
    \/ Orch_AwaitCount
    \/ Orch_AwaitHealth
    \/ Orch_Resume
    \/ Orch_Done
    \/ Orch_Abort
    \/ Orch_GiveUp

Spec == Init /\ [][Next]_vars

\* The pollers alone, each called directly.  The code is sequential: a
\* poller that has been entered keeps executing its next statement, every
\* get_k8s_nodes call and every sleep returning.
PollerStep ==
    \/ k8s_nodes_ready_while
    \/ k8s_nodes_ready_fetch
    \/ k8s_nodes_ready_sleep
    \/ k8s_nodes_ready_return
    \/ k8s_nodes_count_while
    \/ k8s_nodes_count_fetch
    \/ k8s_nodes_count_sleep
    \/ k8s_nodes_count_return

NextPoll ==
    \/ Call_k8s_nodes_ready
    \/ Call_k8s_nodes_count
    \/ PollerStep

FairPollSpec == Init /\ [][NextPoll]_vars /\ WF_vars(PollerStep)

----------------------------------------------------------------------------
(* Properties *)

Pollers == {"k8s_nodes_ready", "k8s_nodes_count"}

\* function f has ended
Ended(f) == frame.fn = f /\ frame.pc = "done"

\* a poller has ended and every get_k8s_nodes call it made succeeded
PollerEnded(f) == Ended(f) /\ ~poll.failed

ReturnedBool(b) == ret.kind = "return" /\ ret.val = b

\* C1: k8s_nodes_count returns True exactly when a snapshot it fetched has
\* length desired_node_count, and returns False when none it fetched has,
\* for every max_retry.
C1_CountTrueIffSnapshotMatched ==
    PollerEnded("k8s_nodes_count") =>
        /\ ReturnedBool(TRUE) <=> poll.converged
        /\ ~poll.converged => ReturnedBool(FALSE)

\* C2: k8s_nodes_ready returns True as soon as a fetched snapshot has no
\* node with Ready False, fetching nothing after that snapshot, and returns
\* False when every snapshot of the budget has such a node, for every
\* max_retry.
C2_ReadyTrueAtFirstHealthySnapshot ==
    /\ frame.fn = "k8s_nodes_ready" => poll.late = 0
    /\ PollerEnded("k8s_nodes_ready") =>
        /\ poll.converged => (ReturnedBool(TRUE) /\ AllReady(frame.nodes[1]))
        /\ ~poll.converged => ReturnedBool(FALSE)

\* C3: for every max_retry, 0 and 1 included, a poller whose get_k8s_nodes
\* calls all succeed ends by returning a boolean, never in an error.
C3_PollersEndWithBoolean ==
    \A f \in Pollers :
        PollerEnded(f) => (ret.kind = "return" /\ ret.val \in BOOLEAN)

\* C4: for every max_retry >= 1 a poll that never converges makes exactly
\* max_retry - 1 fetches and then returns False.
C4_NonConvergingPollMakesBudgetMinusOneFetches ==
    \A f \in Pollers :
        (PollerEnded(f) /\ ~poll.converged /\ frame.max_retry >= 1) =>
            (poll.fetches = frame.max_retry - 1 /\ ReturnedBool(FALSE))

\* hay holds needle at some offset, character by character
Contains(needle, hay) ==
    \E k \in 1..(Len(hay) + 1) :
        /\ k + Len(needle) - 1 <= Len(hay)
        /\ \A j \in 1..Len(needle) : hay[k + j - 1] = needle[j]

\* the positions of the snapshot's nodes that match the instance id
Matches(k8s_nodes, instance_id) ==
    {i \in 1..Len(k8s_nodes) : Contains(instance_id, k8s_nodes[i].provider_id)}

Last(S) == CHOOSE i \in S : \A j \in S : j <= i

\* C5: get_node_by_instance_id returns the matching node's name when
\* exactly one node matches, and the name of the last matching node in
\* snapshot order when two or more match.
C5_ResolveReturnsLastMatch ==
    Ended("get_node_by_instance_id") =>
        LET M == Matches(frame.k8s_nodes, frame.instance_id) IN
        /\ Cardinality(M) = 1 =>
             \E i \in M : ret.kind = "return" /\ ret.val = frame.k8s_nodes[i].name
        /\ Cardinality(M) >= 2 =>
             (ret.kind = "return" /\ ret.val = frame.k8s_nodes[Last(M)].name)

\* two nodes match, and the name returned is the second one's
C5_Witness ==
    /\ Ended("get_node_by_instance_id")
    /\ Cardinality(Matches(frame.k8s_nodes, frame.instance_id)) = 2
    /\ ret.kind = "return"
    /\ ret.val = frame.k8s_nodes[2].name
    /\ ret.val # frame.k8s_nodes[1].name

\* C6: get_node_by_instance_id raises exactly when no node of the snapshot
\* matches, the empty snapshot included; with a match it returns a name.
C6_ResolveRaisesIffNoMatch ==
    Ended("get_node_by_instance_id") =>
        LET M == Matches(frame.k8s_nodes, frame.instance_id) IN
        /\ ret.kind = "raise" <=> M = {}
        /\ M # {} => (ret.kind = "return" /\ ret.val \in NodeNames)

\* the empty snapshot: the call raised
C6_Witness ==
    /\ Ended("get_node_by_instance_id")
    /\ frame.k8s_nodes = <<>>
    /\ ret.kind = "raise"

\* C7: pause patches the replica count to 0, and resume patches it to the
\* configured resumed value, whatever that value is.
C7_ResumePatchesConfiguredReplicas ==
    (Ended("modify_k8s_autoscaler") /\ frame.body # Unbound) =>
        LET patch == patchCalls[Len(patchCalls)] IN
        /\ frame.action = "pause" => patch.replicas = 0
        /\ frame.action = "resume" => patch.replicas = app_config.RESUMED_REPLICAS

\* C8: a call of modify_k8s_autoscaler with an action other than pause and
\* resume ends the process, issues no patch and leaves the replica count
\* as it was.
C8_InvalidActionIssuesNoPatch ==
    [][(/\ frame.fn # "modify_k8s_autoscaler"
        /\ frame'.fn = "modify_k8s_autoscaler"
        /\ frame'.action \notin {"pause", "resume"})
       => (/\ ret'.kind = "exit"
           /\ patchCalls' = patchCalls
           /\ cluster' = cluster)]_vars

\* an invalid action was given: the process exited, no patch issued
C8_Witness ==
    /\ Ended("modify_k8s_autoscaler")
    /\ frame.action = "stop"
    /\ ret.kind = "exit"
    /\ patchCalls = <<>>
    /\ cluster.replicas = app_config.RESUMED_REPLICAS

\* the last patch issued was rejected by the API
PatchRejected ==
    /\ Ended("modify_k8s_autoscaler")
    /\ patchCalls # <<>>
    /\ ~patchCalls[Len(patchCalls)].ok

\* C9: a call of modify_k8s_autoscaler whose patch is rejected issued that
\* patch once, and ends the process: from then on no patch, drain, delete,
\* fetch or sleep happens and the sequence can only go to Aborted, after
\* the resume as after the pause.
C9_RejectedPatchEndsEverything ==
    [][/\ (frame.fn # "modify_k8s_autoscaler"
           /\ frame'.fn = "modify_k8s_autoscaler"
           /\ frame'.body # Unbound)
          => Len(patchCalls') = Len(patchCalls) + 1
       /\ PatchRejected
          => (/\ ret.kind = "exit"
              /\ step' \in {step, "Aborted"}
              /\ UNCHANGED <<frame, ret, cluster, patchCalls,
                             deleteCalls, drainCalls, poll>>)]_vars

\* the resume patch was rejected and the sequence aborted
C9_Witness ==
    /\ step = "Aborted"
    /\ PatchRejected
    /\ frame.action = "resume"
    /\ Len(patchCalls) = 2
    /\ patchCalls[1].ok

\* C10: in the replacement sequence a rejected delete_node call is
\* terminal: delete_node does not return normally, no later step runs,
\* and the autoscaler stays paused.
C10_RejectedDeleteIsTerminal ==
    (/\ step \notin {"Idle", "Called"}
     /\ deleteCalls # <<>>
     /\ ~deleteCalls[Len(deleteCalls)].ok)
    => (/\ step \in {"Deleting", "Aborted"}
        /\ step = "Deleting" => ret.kind # "return"
        /\ cluster.replicas = 0)

\* the replacement sequence is running or has ended
InSequence == step \notin {"Idle", "Called"}

\* C11: drain_node raises exactly when kubectl drain exits non-zero; in the
\* replacement sequence a failed drain is followed by no delete_node call
\* and leaves the autoscaler paused, and a node is deleted only after its
\* drain returned success.
C11_FailedDrainNeverDeletes ==
    /\ Ended("drain_node") =>
         (ret.kind = "raise" <=> drainCalls[Len(drainCalls)].returncode # 0)
    /\ (InSequence /\ drainCalls # <<>> /\ drainCalls[Len(drainCalls)].returncode # 0)
         => (/\ step \in {"Draining", "Aborted"}
             /\ deleteCalls = <<>>
             /\ cluster.deleted = {}
             /\ cluster.replicas = 0)
    /\ (InSequence /\ deleteCalls # <<>>)
         => (/\ drainCalls # <<>>
             /\ drainCalls[1].returncode = 0
             /\ drainCalls[1].argv[3] = deleteCalls[1].node_name)

\* the drain failed and the sequence aborted with nothing deleted
C11_Witness ==
    /\ step = "Aborted"
    /\ Ended("drain_node")
    /\ ret.kind = "raise"
    /\ drainCalls[1].returncode = 1
    /\ deleteCalls = <<>>
    /\ cluster.replicas = 0

\* argv without the --dry-run flag
WithoutDryRun(argv) == SelectSeq(argv, LAMBDA a : a # "--dry-run")

\* C12: every drain and every delete_node call carries the dry-run flag
\* exactly when DRY_RUN is set; apart from the flag the call is the same in
\* both modes (same command, same node), and so is what the function does
\* with the answer.
C12_DryRunFlagFollowsConfig ==
    /\ \A k \in 1..Len(drainCalls) :
         /\ HasFlag(drainCalls[k].argv, "--dry-run") <=> app_config.DRY_RUN
         /\ WithoutDryRun(drainCalls[k].argv) =
              <<"kubectl", "drain", drainCalls[k].argv[3],
                "--ignore-daemonsets", "--delete-local-data">>
         /\ InSequence => drainCalls[k].argv[3] = target.node_name
    /\ \A k \in 1..Len(deleteCalls) :
         /\ deleteCalls[k].dry_run # None <=> app_config.DRY_RUN
         /\ InSequence => deleteCalls[k].node_name = target.node_name
    /\ Ended("drain_node") =>
         /\ frame.node_name = drainCalls[Len(drainCalls)].argv[3]
         /\ ret.kind = "raise" <=> drainCalls[Len(drainCalls)].returncode # 0
    /\ Ended("delete_node") =>
         /\ frame.node_name = deleteCalls[Len(deleteCalls)].node_name
         /\ ret.kind = "return"

\* in dry-run mode the sequence has drained and deleted, both with the flag
C12_Witness ==
    /\ app_config.DRY_RUN
    /\ step = "Deleting"
    /\ HasFlag(drainCalls[1].argv, "--dry-run")
    /\ deleteCalls[1].dry_run = "true"

\* C13: with DRY_RUN set no run of the replacement sequence changes the
\* cluster: node objects, pods and the autoscaler's replica count stay as
\* they were at the start.
C13_DryRunChangesNothing ==
    (app_config.DRY_RUN /\ step # "Called") =>
        cluster = [replicas |-> app_config.RESUMED_REPLICAS,
                   deleted |-> {}, evicted |-> {}]

\* the order of the steps of the replacement sequence
StepOrder ==
    << "Idle", "Resolving", "Paused", "Draining", "Deleting",
       "AwaitingCount", "AwaitingHealth", "Resumed", "Done" >>

\* C14: the steps of the replacement sequence occur in the order resolve,
\* pause, drain, delete, await count, await health, resume; drain and
\* delete are issued only with the autoscaler paused and not yet resumed;
\* resume is issued only after the delete was issued and both polls
\* returned.
C14_StepsInOrder ==
    [][/\ (step' # step /\ step' \notin {"Called", "Aborted"})
          => \E k \in 1..(Len(StepOrder) - 1) :
                step = StepOrder[k] /\ step' = StepOrder[k + 1]
       /\ (InSequence' /\ drainCalls' # drainCalls)
          => (/\ step = "Paused" /\ step' = "Draining"
              /\ Len(patchCalls) = 1 /\ patchCalls[1].ok
              /\ cluster.replicas = 0)
       /\ (InSequence' /\ deleteCalls' # deleteCalls)
          => (/\ step = "Draining" /\ step' = "Deleting"
              /\ Len(patchCalls) = 1 /\ patchCalls[1].ok
              /\ cluster.replicas = 0)
       /\ step' = "AwaitingHealth"
          => (step = "AwaitingHealth" \/
              (Ended("k8s_nodes_count") /\ ret.kind = "return"))
       /\ (InSequence' /\ patchCalls' # patchCalls /\ patchCalls # <<>>)
          => (/\ step = "AwaitingHealth" /\ step' = "Resumed"
              /\ Ended("k8s_nodes_ready") /\ ret.kind = "return"
              /\ Len(deleteCalls) = 1
              /\ frame'.action = "resume")]_vars

\* the sequence ran to its end: one drain, one delete, pause then resume
C14_Witness ==
    /\ step = "Done"
    /\ Len(drainCalls) = 1 /\ Len(deleteCalls) = 1
    /\ Len(patchCalls) = 2
    /\ patchCalls[1].replicas = 0
    /\ cluster.replicas = 2

\* C15: one invocation of modify_k8s_autoscaler, drain_node or delete_node
\* issues its patch, drain or delete at most once, whether the call
\* succeeds or fails; the pollers issue none of them and change nothing in
\* the cluster: only get_k8s_nodes is called repeatedly.
C15_MutatingCallsIssuedOnce ==
    [][/\ Len(patchCalls') <= Len(patchCalls) + 1
       /\ Len(deleteCalls') <= Len(deleteCalls) + 1
       /\ Len(drainCalls') <= Len(drainCalls) + 1
       /\ patchCalls' # patchCalls
          => (frame'.fn = "modify_k8s_autoscaler"
              /\ UNCHANGED <<deleteCalls, drainCalls>>)
       /\ deleteCalls' # deleteCalls
          => (frame'.fn = "delete_node"
              /\ UNCHANGED <<patchCalls, drainCalls>>)
       /\ drainCalls' # drainCalls
          => (frame'.fn = "drain_node"
              /\ UNCHANGED <<patchCalls, deleteCalls>>)
       /\ frame'.fn \in Pollers
          => UNCHANGED <<patchCalls, deleteCalls, drainCalls, cluster>>]_vars

\* a rejected delete was issued once, and the poller after it fetched twice
C15_Witness ==
    /\ step = "AwaitingHealth"
    /\ Ended("k8s_nodes_ready")
    /\ poll.fetches = 2
    /\ Len(deleteCalls) = 1 /\ ~deleteCalls[1].ok
    /\ Len(drainCalls) = 1
    /\ Len(patchCalls) = 1

\* C16: when a get_k8s_nodes call made by a poller raises, the poller ends
\* there with that error: no further fetch, no sleep after the failed
\* fetch, no verdict from it, no boolean returned.
C16_ListFailurePropagates ==
    \A f \in Pollers :
        (frame.fn = f /\ poll.failed) =>
            /\ frame.pc = "done"
            /\ ret.kind = "raise" /\ ret.val = "ApiException"
            /\ poll.sleeps = poll.fetches - 1
            /\ f = "k8s_nodes_ready" => frame.healthy_nodes = Bound(TRUE)
            /\ f = "k8s_nodes_count" => frame.nodes_online = Bound(TRUE)

\* the second fetch of k8s_nodes_ready raised, after one sleep
C16_Witness ==
    /\ Ended("k8s_nodes_ready")
    /\ poll.failed
    /\ poll.fetches = 2
    /\ poll.sleeps = 1
    /\ ret.kind = "raise"

\* a node whose last condition record of type Ready has status False
LastReadyIsFalse(node) ==
    \E j \in 1..Len(node.conditions) :
        /\ node.conditions[j].type = "Ready"
        /\ node.conditions[j].status = "False"
        /\ \A k \in (j + 1)..Len(node.conditions) : node.conditions[k].type # "Ready"

\* C17: k8s_nodes_ready judges a node with several Ready records by the
\* last one: Ready records [False, True] do not make a snapshot unhealthy,
\* [True, False] do.
C17_LastReadyRecordDecides ==
    (/\ frame.fn = "k8s_nodes_ready"
     /\ frame.pc \in {"sleep", "while", "return", "done"}
     /\ frame.nodes # Unbound
     /\ ~poll.failed)
    => (frame.healthy_nodes[1]
          <=> \A i \in 1..Len(frame.nodes[1]) : ~LastReadyIsFalse(frame.nodes[1][i]))

\* C18: every snapshot a poller fetches gets one verdict, computed from
\* that snapshot alone, and the value a poller returns is the verdict of
\* the last snapshot it fetched, whatever earlier attempts observed.
C18_VerdictFromLastSnapshot ==
    /\ \A f \in Pollers :
         frame.fn = f =>
            poll.verdicts = poll.fetches - (IF poll.failed THEN 1 ELSE 0)
    /\ (Ended("k8s_nodes_ready") /\ ret.kind = "return") =>
         /\ frame.nodes # Unbound
         /\ ret.val <=> AllReady(frame.nodes[1])
    /\ (Ended("k8s_nodes_count") /\ ret.kind = "return") =>
         /\ frame.nodes # Unbound
         /\ ret.val <=> (Len(frame.nodes[1]) = frame.desired_node_count)

\* k8s_nodes_ready returned True on its second snapshot, after an
\* unhealthy first one
C18_Witness ==
    /\ Ended("k8s_nodes_ready")
    /\ ReturnedBool(TRUE)
    /\ poll.fetches = 2
    /\ poll.verdicts = 2
    /\ poll.sleeps = 1

\* the fetches, and the sleeps, a poller's budget allows
Budget(max_retry) == IF max_retry >= 1 THEN max_retry - 1 ELSE 0

\* C19: as stated, a poller makes at most max_retry - 1 fetches and at most
\* max_retry - 1 sleeps, for every max_retry.
C19_AtMostMaxRetryMinusOne ==
    \A f \in Pollers :
        frame.fn = f =>
            /\ poll.fetches <= frame.max_retry - 1
            /\ poll.sleeps <= frame.max_retry - 1

\* C19, amended: for every max_retry a poller that has been entered ends,
\* after at most max_retry - 1 fetches and sleeps when max_retry >= 1 and
\* after none when max_retry = 0.
C19_PollersEndWithinBudget ==
    /\ [](\A f \in Pollers :
            frame.fn = f =>
                /\ poll.fetches <= Budget(frame.max_retry)
                /\ poll.sleeps <= Budget(frame.max_retry))
    /\ \A f \in Pollers : (frame.fn = f) ~> (frame.fn = f /\ frame.pc = "done")

\* a poll that never converged ended after max_retry - 1 fetches and sleeps
C19_Witness ==
    /\ Ended("k8s_nodes_count")
    /\ ReturnedBool(FALSE)
    /\ frame.max_retry = 3
    /\ poll.fetches = 2
    /\ poll.sleeps = 2

====
